---- MODULE Spec2Model ----
(***************************************************************************)
(* CogMem episodic memory: the Postgres-backed EpisodicRepository          *)
(* (Save, FindByID, FindRecent, FindByVector) over the episodic_memory     *)
(* table of migration 0001, with the entity constructor that feeds it.     *)
(*                                                                         *)
(* Go values and table rows are kept apart: Save converts an               *)
(* entity.EpisodicMemory to a row (ToRow), the Find methods scan rows back *)
(* (ScanRow).  Times on the Go side are nanoseconds, TIMESTAMPTZ columns   *)
(* hold microseconds.  WHERE clauses are evaluated in SQL's three-valued   *)
(* logic.  An ORDER BY leaves the order of equal keys to the server, and   *)
(* the ivfflat index answers a similarity query from the probed list only: *)
(* both are nondeterministic choices here.                                 *)
(*                                                                         *)
(* Around the repository: LoadConfig with the process environment, the     *)
(* .env file and config.yaml; migration 0001 applied to a database in use; *)
(* and the decay engine (lifecycle and per-cycle algorithm), for which the *)
(* repository holds the design and the configuration but no code.          *)
(***************************************************************************)
EXTENDS Integers, Sequences, FiniteSets, TLC

VARIABLES table, saved, ret, cfg, clock, pending, environ, decay

vars == <<table, saved, ret, cfg, clock, pending, environ, decay>>

\* What no repository method writes: the configuration, the wall clock, the
\* INSERT statements other callers have in flight, the process environment
\* and the decay engine.
env == <<cfg, clock, pending, environ, decay>>

(***************************************************************************)
(* Bounds of the model.                                                    *)
(***************************************************************************)
\* Number of distinct uuids that uuid.New() / callers can produce.
MaxId == 2
\* Largest LIMIT a caller passes.
MaxLimit == 2
\* Declared dimension of the embedding column (vector(1536)), scaled down.
VectorDim == 2

\* Microseconds the wall clock advances.
MaxTicks == 1
\* Number of decay cycles the periodic task runs.
MaxCycles == 2

Ids == 1..MaxId
Limits == 0..MaxLimit

(***************************************************************************)
(* Go side: values of package entity.                                      *)
(***************************************************************************)
\* A nil *uuid.UUID / nil error / nil result pointer.
nil == "nil"

\* The error FindByID's row.Scan returns when the query yields no row.
ErrNoRows == "no rows in result set"
\* The message Save wraps a failed INSERT in.
ErrInsert == "insert episodic_memory"
\* The messages FindRecent and FindByVector wrap a failed Query in.
ErrQueryRecent == "query recent"
ErrVectorSearch == "vector search"
\* ctx.Err() of a context whose deadline has passed.
ErrDeadlineExceeded == "context deadline exceeded"
\* The server's errors for a second row with the same primary key and for a
\* vector that does not fit the column.
ErrUniqueViolation == "duplicate key value violates unique constraint"
ErrDimension == "expected 1536 dimensions"

\* fmt.Errorf("<msg>: %w", err)
Errorf(msg, err) == msg \o ": " \o err

\* errors.Is(err, target) over the wrappers the repository uses.
ErrorsIs(err, target) ==
    \/ err = target
    \/ \E msg \in {ErrInsert, ErrQueryRecent, ErrVectorSearch} :
          err = Errorf(msg, target)

\* A context that outlives the call, and one whose deadline passes during it.
CtxLive == "live"
CtxDone == "done"

\* AccessibilityScore: 1.0.  Scores are counted in thousandths.
DefaultAccessibilityScore == 1000

\* uuid.Nil, the zero UUID.
UuidNil == 0

\* uuid.New(): a random UUID, taken to differ from every UUID in use.
UuidNew(used) == Ids \ (used \cup {UuidNil})

PartitionContext(userID, entityID) ==
    [UserID |-> userID, EntityID |-> entityID]

\* Faulty variant: a constructor that leaves the two defaults at Go's zero
\* values.
NewEpisodicMemoryZeroed(id, userID, entityID, content, embedding, timestamp, shareScope) ==
    [ID                 |-> id,
     UserID             |-> userID,
     EntityID           |-> entityID,
     Content            |-> content,
     Embedding          |-> embedding,
     Timestamp          |-> timestamp,
     ShareScope         |-> shareScope,
     LastAccessed       |-> 0,
     AccessibilityScore |-> 0]

\* The constructor, with the UUID that uuid.New() returned as id.
NewEpisodicMemory(id, userID, entityID, content, embedding, timestamp, shareScope) ==
    [ID                 |-> id,
     UserID             |-> userID,
     EntityID           |-> entityID,
     Content            |-> content,
     Embedding          |-> embedding,
     Timestamp          |-> timestamp,
     ShareScope         |-> shareScope,
     LastAccessed       |-> timestamp,
     AccessibilityScore |-> DefaultAccessibilityScore]

(***************************************************************************)
(* SQL side: column conversions and three-valued logic.                    *)
(***************************************************************************)
NULL == "NULL"

\* A *uuid.UUID bound to a UUID parameter or column: nil becomes NULL.
UuidParam(p) == IF p = nil THEN NULL ELSE p
\* A nullable UUID column scanned into a *uuid.UUID.
ScanUuid(c) == IF c = NULL THEN nil ELSE c

\* time.Time (nanoseconds) written to a TIMESTAMPTZ column (microseconds).
ToTimestamptz(t) == t \div 1000
\* A TIMESTAMPTZ column scanned into a time.Time.
ScanTimestamptz(us) == us * 1000

SqlEq(a, b) ==
    IF a = NULL \/ b = NULL THEN "UNKNOWN"
    ELSE IF a = b THEN "TRUE" ELSE "FALSE"

SqlIsNull(a) == IF a = NULL THEN "TRUE" ELSE "FALSE"

SqlOr(x, y) ==
    IF x = "TRUE" \/ y = "TRUE" THEN "TRUE"
    ELSE IF x = "FALSE" /\ y = "FALSE" THEN "FALSE"
    ELSE "UNKNOWN"

SqlAnd(x, y) ==
    IF x = "FALSE" \/ y = "FALSE" THEN "FALSE"
    ELSE IF x = "TRUE" /\ y = "TRUE" THEN "TRUE"
    ELSE "UNKNOWN"

\* Faulty variant: the filter without its owner test.
PartitionFilterNoUser(row, pCtx) ==
    SqlOr(SqlIsNull(row.entity_id),
          SqlEq(row.entity_id, UuidParam(pCtx.EntityID)))

\* Faulty variant: the filter without its sub-scope test.
PartitionFilterNoEntity(row, pCtx) ==
    SqlEq(row.user_id, pCtx.UserID)

\* user_id = $u AND (entity_id IS NULL OR entity_id = $e), with the
\* PartitionContext's UserID and EntityID as $u and $e.
PartitionFilter(row, pCtx) ==
    SqlAnd(SqlEq(row.user_id, pCtx.UserID),
           SqlOr(SqlIsNull(row.entity_id),
                 SqlEq(row.entity_id, UuidParam(pCtx.EntityID))))

\* The rows a WHERE clause keeps are those it evaluates to TRUE.
Visible(rows, pCtx) == {row \in rows : PartitionFilter(row, pCtx) = "TRUE"}

\* Faulty variant: an insert that drops the sub-scope.
ToRowNoEntity(mem) ==
    [id                  |-> mem.ID,
     user_id             |-> mem.UserID,
     entity_id           |-> NULL,
     content             |-> mem.Content,
     embedding           |-> mem.Embedding,
     timestamp           |-> ToTimestamptz(mem.Timestamp),
     share_scope         |-> mem.ShareScope,
     last_accessed       |-> ToTimestamptz(mem.LastAccessed),
     accessibility_score |-> mem.AccessibilityScore]

\* The VALUES ($1..$9) of Save's INSERT.
ToRow(mem) ==
    [id                  |-> mem.ID,
     user_id             |-> mem.UserID,
     entity_id           |-> UuidParam(mem.EntityID),
     content             |-> mem.Content,
     embedding           |-> mem.Embedding,
     timestamp           |-> ToTimestamptz(mem.Timestamp),
     share_scope         |-> mem.ShareScope,
     last_accessed       |-> ToTimestamptz(mem.LastAccessed),
     accessibility_score |-> mem.AccessibilityScore]

\* row.Scan / rows.Scan into an entity.EpisodicMemory.
ScanRow(row) ==
    [ID                 |-> row.id,
     UserID             |-> row.user_id,
     EntityID           |-> ScanUuid(row.entity_id),
     Content            |-> row.content,
     Embedding          |-> row.embedding,
     Timestamp          |-> ScanTimestamptz(row.timestamp),
     ShareScope         |-> row.share_scope,
     LastAccessed       |-> ScanTimestamptz(row.last_accessed),
     AccessibilityScore |-> row.accessibility_score]

ScanRows(s) == [i \in 1..Len(s) |-> ScanRow(s[i])]

(***************************************************************************)
(* ORDER BY and LIMIT.                                                     *)
(***************************************************************************)
Min(a, b) == IF a <= b THEN a ELSE b

\* LIMIT n of an ordered row stream, n >= 0.
Limit(s, n) == SubSeq(s, 1, Min(n, Len(s)))

RECURSIVE OrderByTimestampAsc(_)
OrderByTimestampAsc(rows) ==
    IF rows = {} THEN {<<>>}
    ELSE UNION {{<<r>> \o s : s \in OrderByTimestampAsc(rows \ {r})} :
                  r \in {x \in rows : \A y \in rows : x.timestamp <= y.timestamp}}

\* ORDER BY timestamp DESC: every order of the rows in which no row precedes
\* one of a greater timestamp; rows of equal timestamp come in any order.
RECURSIVE OrderByTimestampDesc(_)
OrderByTimestampDesc(rows) ==
    IF rows = {} THEN {<<>>}
    ELSE UNION {{<<r>> \o s : s \in OrderByTimestampDesc(rows \ {r})} :
                  r \in {x \in rows : \A y \in rows : x.timestamp >= y.timestamp}}

(***************************************************************************)
(* Cosine distance (the <=> operator of vector_cosine_ops).  Embedding     *)
(* components are integers; distances are compared exactly, by signs and   *)
(* cross-multiplied squares.  The distance to or from a zero vector is     *)
(* NaN, which a float8 ORDER BY sorts after every number.                  *)
(***************************************************************************)
Dot(a, b) ==
    LET sum[n \in 0..Len(a)] ==
            IF n = 0 THEN 0 ELSE a[n] * b[n] + sum[n - 1]
    IN  sum[Len(a)]

Norm2(a) == Dot(a, a)

\* What (a <=> q) is compared by: the dot product with q and the squared
\* norm of a (the norm of q is common to all rows of one query).
DistKey(q, a) == [dot |-> Dot(a, q), norm2 |-> Norm2(a), qnorm2 |-> Norm2(q)]

KeyIsNaN(k) == k.norm2 = 0 \/ k.qnorm2 = 0

\* cos(q, a) >= cos(q, b) by the keys of a and b, both distances numbers:
\* dot_a / |a| >= dot_b / |b|, compared by signs and cross-multiplied squares.
CosGeq(ka, kb) ==
    IF ka.dot >= 0 /\ kb.dot <= 0 THEN TRUE
    ELSE IF ka.dot < 0 /\ kb.dot >= 0 THEN FALSE
    ELSE IF ka.dot >= 0
         THEN ka.dot * ka.dot * kb.norm2 >= kb.dot * kb.dot * ka.norm2
         ELSE ka.dot * ka.dot * kb.norm2 <= kb.dot * kb.dot * ka.norm2

\* The distance of key ka sorts at or before that of kb.
KeyLeq(ka, kb) ==
    IF KeyIsNaN(kb) THEN TRUE
    ELSE IF KeyIsNaN(ka) THEN FALSE
    ELSE CosGeq(ka, kb)

\* (a <=> q) sorts at or before (b <=> q).
DistLeq(q, a, b) == KeyLeq(DistKey(q, a), DistKey(q, b))

DistLt(q, a, b) == ~DistLeq(q, b, a)

\* a is a positive multiple of q (cosine distance 0).
SameDirection(q, a) ==
    LET k == DistKey(q, a)
    IN  k.dot > 0 /\ k.dot * k.dot = k.norm2 * k.qnorm2

\* Rows paired with their keys, in every order in which no pair precedes one
\* of a smaller distance.
RECURSIVE SortByKey(_)
SortByKey(keyed) ==
    IF keyed = {} THEN {<<>>}
    ELSE UNION {{<<k.row>> \o s : s \in SortByKey(keyed \ {k})} :
                  k \in {x \in keyed : \A y \in keyed : KeyLeq(x.key, y.key)}}

Keyed(rows, q) == {[row |-> r, key |-> DistKey(q, r.embedding)] : r \in rows}

OrderByDistanceDesc(rows, q) ==
    LET rev(s) == [i \in 1..Len(s) |-> s[Len(s) + 1 - i]]
    IN  UNION {{rev(s) : s \in SortByKey(keyed)} : keyed \in {Keyed(rows, q)}}

\* ORDER BY embedding <=> $q: every order of the rows in which no row precedes
\* a nearer one; rows at equal distance come in any order.
OrderByDistance(rows, q) ==
    UNION {SortByKey(keyed) : keyed \in {Keyed(rows, q)}}

\* The row sets an ivfflat scan (probes = 1) can hand to the executor: the
\* rows of the list whose centre is nearest the query.  Zero vectors are not
\* indexed under vector_cosine_ops; a row in the query's own direction is
\* normalised to the query's point and falls in the probed list; which other
\* rows share that list depends on the list centres.
IvfflatProbe(rows, q) ==
    UNION {{own \cup c : c \in SUBSET ({r \in rows : Norm2(r.embedding) # 0} \ own)} :
             own \in {{r \in rows : SameDirection(q, r.embedding)}}}

\* The planner answers the query by a sequential scan or by the index.
ScanCandidates(rows, q) == {rows} \cup IvfflatProbe(rows, q)

(***************************************************************************)
(* Outcomes of the repository methods on a given table.                    *)
(***************************************************************************)
Outcome(err, mems) == [err |-> err, mems |-> mems]

\* Faulty variant: a table without its primary key.
InsertAcceptedNoKey(rows, row) == Len(row.embedding) = VectorDim

\* INSERT is rejected by the primary key or by the column's dimension.
InsertAccepted(rows, row) ==
    /\ \A r \in rows : r.id # row.id
    /\ Len(row.embedding) = VectorDim

\* The error of a rejected INSERT, nil when it is accepted: the value is
\* coerced to the column's type before the row reaches the primary-key index.
InsertError(rows, row) ==
    IF Len(row.embedding) # VectorDim THEN ErrDimension
    ELSE IF \E r \in rows : r.id = row.id THEN ErrUniqueViolation
    ELSE nil

\* Faulty variant: a statement that also sees rows of INSERTs in flight.
SnapshotDirty(committed, inflight) ==
    committed \cup {ToRow(mem) : mem \in inflight}

\* The rows a statement sees: those of committed INSERTs.  Each Save is one
\* autocommitted statement and each Find one SELECT.
Snapshot(committed, inflight) == committed

\* Faulty variant: WHERE id = $1 alone.
FindByIDResultsAnyPartition(rows, id, pCtx) ==
    LET hit == {r \in rows : r.id = id}
    IN  IF hit = {} THEN {Outcome(ErrNoRows, <<>>)}
        ELSE {Outcome(nil, <<ScanRow(r)>>) : r \in hit}

\* Faulty variant: a distinct error for an id that exists in another partition.
FindByIDResultsLeaky(rows, id, pCtx) ==
    LET hit == {r \in Visible(rows, pCtx) : r.id = id}
    IN  IF hit # {} THEN {Outcome(nil, <<ScanRow(r)>>) : r \in hit}
        ELSE IF \E r \in rows : r.id = id THEN {Outcome("forbidden", <<>>)}
        ELSE {Outcome(ErrNoRows, <<>>)}

\* SELECT ... WHERE id = $1 AND <partition filter>, then row.Scan: the row, or
\* ErrNoRows and a nil result when the query yields none.
FindByIDResults(rows, id, pCtx) ==
    LET hit == {r \in Visible(rows, pCtx) : r.id = id}
    IN  IF hit = {} THEN {Outcome(ErrNoRows, <<>>)}
        ELSE {Outcome(nil, <<ScanRow(r)>>) : r \in hit}

\* A negative LIMIT fails when the query executes; the failure is reported by
\* rows.Err(), which the method does not read: no row, nil error.
FindRecentResults(rows, limit, pCtx) ==
    IF limit < 0 THEN {Outcome(nil, <<>>)}
    ELSE {Outcome(nil, ScanRows(Limit(s, limit))) :
            s \in OrderByTimestampDesc(Visible(rows, pCtx))}

FindByVectorResults(rows, vector, limit, pCtx) ==
    IF limit < 0 \/ Len(vector) # VectorDim THEN {Outcome(nil, <<>>)}
    ELSE {Outcome(nil, ScanRows(Limit(s, limit))) :
            s \in UNION {OrderByDistance(Visible(c, pCtx), vector) :
                            c \in ScanCandidates(rows, vector)}}

\* The rows.Next() loop: with a live context it reads every row; when the
\* deadline passes while rows are read, Next() returns false early and the
\* list read so far is kept (rows.Err() is not consulted).
RowsRead(ctx, mems) ==
    IF ctx = CtxLive THEN {mems}
    ELSE {SubSeq(mems, 1, k) : k \in 0..Len(mems)}

\* FindByID under a context: QueryRow and Scan report the context's error.
FindByIDOutcomes(ctx, rows, id, pCtx) ==
    IF ctx = CtxLive THEN FindByIDResults(rows, id, pCtx)
    ELSE {Outcome(ErrDeadlineExceeded, <<>>)}

\* FindRecent under a context: Query fails with the context's error, or it
\* succeeds and the deadline passes in the loop.
FindRecentOutcomes(ctx, rows, limit, pCtx) ==
    IF ctx = CtxLive THEN FindRecentResults(rows, limit, pCtx)
    ELSE {Outcome(Errorf(ErrQueryRecent, ErrDeadlineExceeded), <<>>)} \cup
         {Outcome(nil, read) :
            read \in UNION {RowsRead(ctx, o.mems) :
                              o \in FindRecentResults(rows, limit, pCtx)}}

FindByVectorOutcomes(ctx, rows, vector, limit, pCtx) ==
    IF ctx = CtxLive THEN FindByVectorResults(rows, vector, limit, pCtx)
    ELSE {Outcome(Errorf(ErrVectorSearch, ErrDeadlineExceeded), <<>>)} \cup
         {Outcome(nil, read) :
            read \in UNION {RowsRead(ctx, o.mems) :
                              o \in FindByVectorResults(rows, vector, limit, pCtx)}}

(***************************************************************************)
(* State and operations.                                                   *)
(*   table    the committed rows of episodic_memory                        *)
(*   saved    the entity handed to the Save that inserted each row, by id  *)
(*   ret      the last call: its arguments and what it returned            *)
(*   cfg      the loaded Config                                            *)
(*   clock    the wall clock, in nanoseconds                               *)
(*   pending  INSERT statements sent and not yet committed                 *)
(***************************************************************************)
NoArg == "-"

Call(op, id, limit, vector, pCtx, out) ==
    [op |-> op, id |-> id, limit |-> limit, vector |-> vector,
     pCtx |-> pCtx, err |-> out.err, mems |-> out.mems]

\* A Save call and its error.
SaveCall(mem, err) ==
    Call("Save", mem.ID, NoArg, NoArg, NoArg, Outcome(err, <<>>)) @@
        [mem |-> mem]

\* A call together with the context it was made under.
Under(ctx, call) == call @@ [ctx |-> ctx]

\* The wall clock before any call.
Epoch == 3000

\* The Config struct: the embedding dimension, and the decay base rate and
\* valence weight in tenths.
Config(dim, k, w) ==
    [EmbeddingDim |-> dim, DecayBaseRate |-> k, DecayValenceWeight |-> w]

\* The decay section of a configuration: decay_base_rate 1.0 and
\* decay_valence_weight 0.5.
DecayRates == [k |-> 10, w |-> 5]

\* A process environment that holds none of the configuration's variables.
NoEnviron == [name \in {} |-> 0]

\* The decay engine before the first Start: Idle, with no periodic task.
IdleEngine ==
    [state |-> "Idle", tasks |-> 0, handle |-> 0, cancel |-> FALSE,
     stopping |-> FALSE, inflight |-> FALSE, cycle |-> "none", cycles |-> 0,
     at |-> 0, todo |-> {}, done |-> {}, failed |-> {},
     before |-> [i \in {} |-> 0], prevAt |-> -1, prevDone |-> {},
     event |-> "none"]

\* An empty table, under a configuration with one of the given dimensions.
InitWith(dims) ==
    /\ table = {}
    /\ saved = [i \in {} |-> nil]
    /\ ret = Call("none", NoArg, NoArg, NoArg, NoArg, Outcome(nil, <<>>))
    /\ cfg \in {Config(d, DecayRates.k, DecayRates.w) : d \in dims}
    /\ clock = Epoch
    /\ pending = {}
    /\ environ = NoEnviron
    /\ decay = IdleEngine

\* The configuration names the dimension the migration declares.
Init == InitWith({VectorDim})

\* The INSERT commits: the row joins the table.
Insert(mem) ==
    /\ table' = table \cup {ToRow(mem)}
    /\ saved' = [i \in DOMAIN saved \cup {mem.ID} |->
                   IF i = mem.ID THEN mem ELSE saved[i]]

\* With a live context Save returns the INSERT's result.  When the deadline
\* passes during the call Save returns the context's error, whether the
\* statement was stopped or had already committed.
Save(ctx, mem) ==
    /\ IF ctx = CtxLive
       THEN IF InsertAccepted(table, ToRow(mem))
            THEN /\ Insert(mem)
                 /\ ret' = Under(ctx, SaveCall(mem, nil))
            ELSE /\ ret' = Under(ctx, SaveCall(mem,
                                Errorf(ErrInsert, InsertError(table, ToRow(mem)))))
                 /\ UNCHANGED <<table, saved>>
       ELSE /\ ret' = Under(ctx, SaveCall(mem, Errorf(ErrInsert, ErrDeadlineExceeded)))
            /\ \/ UNCHANGED <<table, saved>>
               \/ InsertAccepted(table, ToRow(mem)) /\ Insert(mem)
    /\ UNCHANGED env

\* Faulty variant: a read that removes the row it returns.
FindByIDConsuming(ctx, id, pCtx) ==
    /\ \E out \in FindByIDOutcomes(ctx, Snapshot(table, pending), id, pCtx) :
          /\ ret' = Under(ctx, Call("FindByID", id, NoArg, NoArg, pCtx, out))
          /\ table' = IF out.err = nil THEN {r \in table : r.id # id} ELSE table
    /\ UNCHANGED saved
    /\ UNCHANGED env

FindByID(ctx, id, pCtx) ==
    /\ \E out \in FindByIDOutcomes(ctx, Snapshot(table, pending), id, pCtx) :
          ret' = Under(ctx, Call("FindByID", id, NoArg, NoArg, pCtx, out))
    /\ UNCHANGED <<table, saved>>
    /\ UNCHANGED env

\* Faulty variant: a read that stamps the rows it returns with the time of
\* the read.
FindRecentTouching(ctx, limit, pCtx) ==
    /\ \E out \in FindRecentOutcomes(ctx, Snapshot(table, pending), limit, pCtx) :
          /\ ret' = Under(ctx, Call("FindRecent", NoArg, limit, NoArg, pCtx, out))
          /\ table' = {IF \E i \in 1..Len(out.mems) : out.mems[i].ID = r.id
                       THEN [r EXCEPT !.last_accessed = ToTimestamptz(clock)]
                       ELSE r : r \in table}
    /\ UNCHANGED saved
    /\ UNCHANGED env

FindRecent(ctx, limit, pCtx) ==
    /\ \E out \in FindRecentOutcomes(ctx, Snapshot(table, pending), limit, pCtx) :
          ret' = Under(ctx, Call("FindRecent", NoArg, limit, NoArg, pCtx, out))
    /\ UNCHANGED <<table, saved>>
    /\ UNCHANGED env

FindByVector(ctx, vector, limit, pCtx) ==
    /\ \E out \in FindByVectorOutcomes(ctx, Snapshot(table, pending), vector,
                                       limit, pCtx) :
          ret' = Under(ctx, Call("FindByVector", NoArg, limit, vector, pCtx, out))
    /\ UNCHANGED <<table, saved>>
    /\ UNCHANGED env

\* Migration 0001 is applied: DROP TABLE IF EXISTS episodic_memory, then
\* CREATE TABLE episodic_memory and its indexes.  The table is new and empty.
ApplyMigration ==
    /\ table' = {}
    /\ saved' = [i \in {} |-> nil]
    /\ ret' = Call("ApplyMigration", NoArg, NoArg, NoArg, NoArg,
                   Outcome(nil, <<>>))
    /\ UNCHANGED env

\* A caller builds an episode; the call and its result are kept in ret.
Construct(userID, entityID, content, embedding, timestamp, shareScope) ==
    /\ \E id \in UuidNew(DOMAIN saved) :
          ret' = [op   |-> "NewEpisodicMemory",
                  args |-> [userID |-> userID, entityID |-> entityID,
                            content |-> content, embedding |-> embedding,
                            timestamp |-> timestamp, shareScope |-> shareScope],
                  err  |-> nil,
                  mems |-> <<NewEpisodicMemory(id, userID, entityID, content,
                                               embedding, timestamp, shareScope)>>]
    /\ UNCHANGED <<table, saved>>
    /\ UNCHANGED env

\* Save as concurrent callers see it, in two steps.  First the INSERT is sent
\* and its row written, uncommitted.
SaveSend(mem) ==
    /\ mem \notin pending
    /\ pending' = pending \cup {mem}
    /\ UNCHANGED <<table, saved, ret, cfg, clock, environ, decay>>

\* Then the statement ends: it commits or is rejected, and Save returns.
SaveReturn(mem) ==
    /\ mem \in pending
    /\ pending' = pending \ {mem}
    /\ IF InsertAccepted(table, ToRow(mem))
       THEN /\ Insert(mem)
            /\ ret' = Under(CtxLive, SaveCall(mem, nil))
       ELSE /\ ret' = Under(CtxLive, SaveCall(mem,
                           Errorf(ErrInsert, InsertError(table, ToRow(mem)))))
            /\ UNCHANGED <<table, saved>>
    /\ UNCHANGED <<cfg, clock, environ, decay>>

\* Time passes, up to MaxTicks microseconds after Epoch.
Tick ==
    /\ clock < Epoch + MaxTicks * 1000
    /\ clock' = clock + 1000
    /\ UNCHANGED <<table, saved, ret, cfg, pending, environ, decay>>

(***************************************************************************)
(* Configuration loading.  The working directory's .env and config.yaml    *)
(* are inputs of each LoadConfig call; the process environment is state.   *)
(***************************************************************************)
\* The mapstructure keys of the Config fields the model carries.
ConfigKeys == {"embedding_dim", "decay_base_rate", "decay_valence_weight"}

\* The environment variable AutomaticEnv reads for a key: the key in upper
\* case.
EnvName(key) ==
    CASE key = "embedding_dim" -> "EMBEDDING_DIM"
      [] key = "decay_base_rate" -> "DECAY_BASE_RATE"
      [] key = "decay_valence_weight" -> "DECAY_VALENCE_WEIGHT"

EnvNames == {EnvName(key) : key \in ConfigKeys}

\* What each source writes for a key it defines: config.yaml the number 10,
\* the .env file the text 88, a caller's os.Setenv the text 99.
YamlValue == 10
DotEnvValue == "88"
SetenvValue == "99"

\* The decoder's conversion of an environment variable's text to a number.
Atoi(text) ==
    CASE text = "88" -> 88
      [] text = "99" -> 99

\* The zero value Unmarshal leaves in a field no known key fills.
ZeroValue == 0

\* The files a working directory can hold: a .env and a config.yaml that
\* define any subset of the keys (none when the file is absent).
DotEnvFiles == UNION {[names -> {DotEnvValue}] : names \in SUBSET EnvNames}
YamlFiles == UNION {[keys -> {YamlValue}] : keys \in SUBSET ConfigKeys}

\* godotenv.Load(): every variable of the .env file that the environment
\* does not hold yet is set in the process environment.
GodotenvLoad(environment, dotenv) ==
    [name \in DOMAIN environment \cup DOMAIN dotenv |->
        IF name \in DOMAIN environment THEN environment[name]
        ELSE dotenv[name]]

\* viper's lookup of a key with AutomaticEnv: the environment variable if it
\* is set, otherwise the value read from config.yaml.
ViperGet(environment, yaml, key) ==
    IF EnvName(key) \in DOMAIN environment
    THEN Atoi(environment[EnvName(key)])
    ELSE yaml[key]

\* v.Unmarshal(&cfg): the fields are filled from the keys viper knows, which
\* are those config.yaml defines; any other field keeps its zero value.
Unmarshal(environment, yaml) ==
    LET field(key) == IF key \in DOMAIN yaml
                      THEN ViperGet(environment, yaml, key)
                      ELSE ZeroValue
    IN  Config(field("embedding_dim"), field("decay_base_rate"),
               field("decay_valence_weight"))

\* LoadConfig in a working directory with the given files.
LoadConfig(dotenv, yaml) ==
    /\ environ' = GodotenvLoad(environ, dotenv)
    /\ cfg' = Unmarshal(environ', yaml)
    /\ ret' = [op |-> "LoadConfig", dotenv |-> dotenv, yaml |-> yaml,
               environ |-> environ, err |-> nil]
    /\ UNCHANGED <<table, saved, clock, pending, decay>>

\* os.Setenv and os.Unsetenv, as the callers of LoadConfig use them.
Setenv(name, value) ==
    /\ environ' = [n \in DOMAIN environ \cup {name} |->
                     IF n = name THEN value ELSE environ[n]]
    /\ ret' = [op |-> "Setenv", name |-> name, err |-> nil]
    /\ UNCHANGED <<table, saved, cfg, clock, pending, decay>>

Unsetenv(name) ==
    /\ environ' = [n \in DOMAIN environ \ {name} |-> environ[n]]
    /\ ret' = [op |-> "Unsetenv", name |-> name, err |-> nil]
    /\ UNCHANGED <<table, saved, cfg, clock, pending, decay>>

(***************************************************************************)
(* The decay engine: its lifecycle (Start, Stop, the periodic task) and    *)
(* the per-cycle algorithm.  Decimals are counted in tenths, scores in     *)
(* thousandths, and one microsecond of the clock is one unit of timeDelta. *)
(***************************************************************************)
Abs(x) == IF x < 0 THEN -x ELSE x

Max(a, b) == IF a > b THEN a ELSE b

RECURSIVE Pow(_, _)
Pow(b, n) == IF n = 0 THEN 1 ELSE b * Pow(b, n - 1)

\* valence.polarity of an episode, in tenths: 1.0, 0.0 and -0.5.
Polarity(id) == IF id % 3 = 1 THEN 10 ELSE IF id % 3 = 2 THEN 0 ELSE -5

\* k * (1 - w * |polarity|) * timeDelta, counted in halves.
DecayExponent(k, w, polarity, timeDelta) ==
    (k * (100 - w * Abs(polarity)) * timeDelta) \div 500

\* exp(-j/2) as a fraction, with 3/5 for exp(-1/2).
ExpNeg(j) ==
    IF j >= 0
    THEN [num |-> Pow(3, j), den |-> Pow(5, j)]
    ELSE [num |-> Pow(5, -j), den |-> Pow(3, -j)]

\* newScore = accessibility_score * exp(-k * (1 - w * |polarity|) * timeDelta)
\* newScore = max(newScore, 0)
DecayedScore(score, k, w, polarity, timeDelta) ==
    LET factor   == ExpNeg(DecayExponent(k, w, polarity, timeDelta))
        newScore == (score * factor.num) \div factor.den
    IN  Max(newScore, 0)

\* The new score of a row in a cycle whose clock reading is now.
RowDecayed(row, now) ==
    DecayedScore(row.accessibility_score, cfg.DecayBaseRate,
                 cfg.DecayValenceWeight, Polarity(row.id),
                 now - row.last_accessed)

\* A call of the engine's Start or Stop and what it returned.
EngineCall(op, handle, err) ==
    Call(op, NoArg, NoArg, NoArg, NoArg, Outcome(err, <<>>)) @@
        [handle |-> handle]

\* Faulty variant: every Start spawns a periodic task.
StartAlways ==
    /\ decay' = [decay EXCEPT !.state = "Running", !.tasks = @ + 1,
                              !.handle = 1 - @, !.cancel = FALSE,
                              !.event = "Start"]
    /\ ret' = EngineCall("Start", decay'.handle, nil) @@ [was |-> decay.state]
    /\ UNCHANGED <<table, saved, cfg, clock, pending, environ>>

\* Start: Idle -> Running with a new periodic task and a new stop handle;
\* while Running, a no-op that returns the existing handle.
Start ==
    /\ IF decay.state = "Idle"
       THEN decay' = [decay EXCEPT !.state = "Running", !.tasks = @ + 1,
                                   !.handle = 1 - @, !.cancel = FALSE,
                                   !.event = "Start"]
       ELSE decay' = [decay EXCEPT !.event = "Start"]
    /\ ret' = EngineCall("Start", decay'.handle, nil) @@ [was |-> decay.state]
    /\ UNCHANGED <<table, saved, cfg, clock, pending, environ>>

\* Stop is called: it signals cancellation to the periodic task and blocks.
StopCall ==
    /\ ~decay.stopping
    /\ decay' = [decay EXCEPT !.cancel = (decay.state = "Running"),
                              !.stopping = TRUE,
                              !.inflight = (decay.cycle = "running"),
                              !.event = "StopCall"]
    /\ UNCHANGED <<table, saved, ret, cfg, clock, pending, environ>>

\* Faulty variant: Stop returns without waiting for the cycle in flight.
StopReturnEarly(ctx) ==
    /\ decay.stopping
    /\ decay' = [decay EXCEPT !.stopping = FALSE, !.event = "Stop"]
    /\ ret' = Under(ctx, EngineCall("Stop", decay.handle, nil)) @@
                  [inflight |-> decay.inflight]
    /\ UNCHANGED <<table, saved, cfg, clock, pending, environ>>

\* Stop returns.  Under a live context it returns when no cycle is in flight
\* and the task has exited: Running -> Idle.  When the caller's deadline
\* passes while the cycle is still in flight it returns the context's error.
StopReturn(ctx) ==
    /\ decay.stopping
    /\ IF ctx = CtxLive
       THEN /\ decay.cycle = "none"
            /\ decay' = [decay EXCEPT !.state = "Idle", !.tasks = 0,
                                      !.cancel = FALSE, !.stopping = FALSE,
                                      !.event = "Stop"]
            /\ ret' = Under(ctx, EngineCall("Stop", decay.handle, nil)) @@
                          [inflight |-> decay.inflight]
       ELSE /\ decay.cycle = "running"
            /\ decay' = [decay EXCEPT !.stopping = FALSE, !.event = "Stop"]
            /\ ret' = Under(ctx, EngineCall("Stop", decay.handle,
                                            ErrDeadlineExceeded)) @@
                          [inflight |-> decay.inflight]
    /\ UNCHANGED <<table, saved, cfg, clock, pending, environ>>

\* The periodic task sees the cancellation after a Stop that gave up
\* waiting, and exits: Running -> Idle.
TaskExit ==
    /\ ~decay.stopping
    /\ decay.cancel
    /\ decay.cycle = "none"
    /\ decay.tasks > 0
    /\ decay' = [decay EXCEPT !.state = "Idle", !.tasks = 0,
                              !.cancel = FALSE, !.event = "TaskExit"]
    /\ UNCHANGED <<table, saved, ret, cfg, clock, pending, environ>>

\* The interval elapses: the periodic task begins a cycle over every stored
\* episode (the global sweep), reading the clock once.
CycleBegin ==
    /\ decay.state = "Running"
    /\ decay.tasks > 0
    /\ ~decay.cancel
    /\ decay.cycle = "none"
    /\ decay.cycles < MaxCycles
    /\ decay' = [decay EXCEPT
                    !.cycle = "running", !.cycles = @ + 1,
                    !.at = ToTimestamptz(clock),
                    !.todo = {r.id : r \in table},
                    !.done = {}, !.failed = {},
                    !.before = [i \in {r.id : r \in table} |->
                                  (CHOOSE r \in table : r.id = i).accessibility_score],
                    !.prevAt = IF decay.cycles = 0 THEN -1 ELSE decay.at,
                    !.prevDone = decay.done,
                    !.event = "CycleBegin"]
    /\ UNCHANGED <<table, saved, ret, cfg, clock, pending, environ>>

\* Faulty variant: a failed write ends the cycle.
CycleStepAborting(id, written) ==
    /\ decay.cycle = "running"
    /\ id \in decay.todo
    /\ LET row == CHOOSE r \in table : r.id = id
       IN  IF written
           THEN /\ table' = (table \ {row}) \cup
                       {[row EXCEPT !.accessibility_score =
                                        RowDecayed(row, decay.at)]}
                /\ decay' = [decay EXCEPT !.todo = @ \ {id},
                                          !.done = @ \cup {id},
                                          !.event = "CycleStep"]
           ELSE /\ table' = table
                /\ decay' = [decay EXCEPT !.todo = {},
                                          !.failed = @ \cup {id},
                                          !.event = "CycleStep"]
    /\ UNCHANGED <<saved, ret, cfg, clock, pending, environ>>

\* The cycle handles one episode: it reads the row, computes the new score
\* and writes it back in one atomic write.  A write that fails is logged and
\* leaves the row as it was; the cycle goes on to the other episodes.
CycleStep(id, written) ==
    /\ decay.cycle = "running"
    /\ id \in decay.todo
    /\ LET row == CHOOSE r \in table : r.id = id
       IN  IF written
           THEN /\ table' = (table \ {row}) \cup
                       {[row EXCEPT !.accessibility_score =
                                        RowDecayed(row, decay.at)]}
                /\ decay' = [decay EXCEPT !.todo = @ \ {id},
                                          !.done = @ \cup {id},
                                          !.event = "CycleStep"]
           ELSE /\ table' = table
                /\ decay' = [decay EXCEPT !.todo = @ \ {id},
                                          !.failed = @ \cup {id},
                                          !.event = "CycleStep"]
    /\ UNCHANGED <<saved, ret, cfg, clock, pending, environ>>

\* Every episode of the cycle has been handled.
CycleEnd ==
    /\ decay.cycle = "running"
    /\ decay.todo = {}
    /\ decay' = [decay EXCEPT !.cycle = "none", !.event = "CycleEnd"]
    /\ UNCHANGED <<table, saved, ret, cfg, clock, pending, environ>>

(***************************************************************************)
(* Inputs.  Embeddings are the integration test's constant vectors (all    *)
(* 0.1, all 0.9, in tenths) and three more directions.                     *)
(***************************************************************************)
RECURSIVE Repeat(_, _)
Repeat(c, n) == IF n = 0 THEN <<>> ELSE <<c>> \o Repeat(c, n - 1)

Fill(c) == Repeat(c, VectorDim)
Spike(c) == <<c>> \o Repeat(0, VectorDim - 1)
Tilt(c) == <<2 * c>> \o Repeat(c, VectorDim - 1)

Users == {"u1", "u2"}
EntityIDs == {nil, "e1", "e2"}

Partitions(users, entities) ==
    {PartitionContext(u, e) : u \in users, e \in entities}

\* The calls a client makes with the given argument sets, each under a
\* context that outlives the call.
NextOver(users, entities, contents, embeddings, times, queries) ==
    \/ \E id \in Ids, u \in users, e \in entities, c \in contents,
          v \in embeddings, t \in times :
          Save(CtxLive, NewEpisodicMemory(id, u, e, c, v, t, "user"))
    \/ \E id \in Ids, p \in Partitions(users, entities) :
          FindByID(CtxLive, id, p)
    \/ \E l \in Limits, p \in Partitions(users, entities) :
          FindRecent(CtxLive, l, p)
    \/ \E v \in queries, l \in Limits, p \in Partitions(users, entities) :
          FindByVector(CtxLive, v, l, p)

\* Partitioning: both owners, every sub-scope, one content, embedding and time.
Next == NextOver(Users, EntityIDs, {"first"}, {Fill(1)}, {1000}, {Fill(1)})

Spec == Init /\ [][Next]_vars

\* Recency and round trip: one owner, with and without sub-scope, and times
\* that differ below and above the microsecond.
NextRecent ==
    NextOver({"u1"}, {nil, "e1"}, {"first"}, {Fill(1)}, {1000, 1500, 2000},
             {Fill(1)})

SpecRecent == Init /\ [][NextRecent]_vars

\* Similarity: both owners, no sub-scope, embeddings in three directions (two
\* of them the test's all-0.1 and all-0.9), queries in the first direction, in
\* a fourth and the zero vector.
NextVector ==
    NextOver(Users, {nil}, {"first"}, {Fill(1), Fill(9), Tilt(1)}, {1000},
             {Fill(1), Spike(1), Fill(0)})

SpecVector == Init /\ [][NextVector]_vars

\* A vector one element longer than the column.
Long(c) == Repeat(c, VectorDim + 1)

\* embedding_dim as config.yaml or EMBEDDING_DIM may set it.
CfgDims == {VectorDim, VectorDim + 1}

\* A caller's write to the exported fields of an episode it holds.
Touched(mem, lastAccessed, score) ==
    [mem EXCEPT !.LastAccessed = lastAccessed, !.AccessibilityScore = score]

\* Episodes as the constructor returns them, with a negative score, and with
\* a last access before the creation time.
Handed(mem) ==
    {mem, Touched(mem, mem.LastAccessed, -1),
     Touched(mem, mem.Timestamp - 1000, mem.AccessibilityScore)}

\* Writes of any episode a caller can hand to Save, under every configured
\* dimension, with reads of one partition.
NextStore ==
    \/ \E id \in Ids, c \in {"first", "second"}, v \in {Fill(1), Long(1)} :
          \E mem \in Handed(NewEpisodicMemory(id, "u1", nil, c, v, 2000,
                                               "user")) :
             Save(CtxLive, mem)
    \/ \E id \in Ids : FindByID(CtxLive, id, PartitionContext("u1", nil))
    \/ FindRecent(CtxLive, 1, PartitionContext("u1", nil))
    \/ \E v \in {Fill(1), Long(1)} :
          FindByVector(CtxLive, v, 1, PartitionContext("u1", nil))

SpecStore == InitWith(CfgDims) /\ [][NextStore]_vars

\* Calls of one owner under contexts that outlive the call and contexts whose
\* deadline passes during it, while time passes.
NextCtx ==
    \/ \E ctx \in {CtxLive, CtxDone}, id \in Ids, t \in {1000, 2000} :
          Save(ctx, NewEpisodicMemory(id, "u1", nil, "first", Fill(1), t, "user"))
    \/ \E ctx \in {CtxLive, CtxDone}, id \in Ids :
          FindByID(ctx, id, PartitionContext("u1", nil))
    \/ \E ctx \in {CtxLive, CtxDone}, l \in Limits :
          FindRecent(ctx, l, PartitionContext("u1", nil))
    \/ \E ctx \in {CtxLive, CtxDone}, l \in Limits :
          FindByVector(ctx, Fill(1), l, PartitionContext("u1", nil))
    \/ Tick

SpecCtx == Init /\ [][NextCtx]_vars

\* Saves of several callers in flight at once, interleaved with reads.
NextConcurrent ==
    \/ \E id \in Ids, t \in {1000, 1500} :
          SaveSend(NewEpisodicMemory(id, "u1", nil, "first", Fill(1), t, "user"))
    \/ \E mem \in pending : SaveReturn(mem)
    \/ \E id \in Ids : FindByID(CtxLive, id, PartitionContext("u1", nil))
    \/ \E l \in Limits : FindRecent(CtxLive, l, PartitionContext("u1", nil))
    \/ \E l \in Limits :
          FindByVector(CtxLive, Fill(1), l, PartitionContext("u1", nil))

SpecConcurrent == Init /\ [][NextConcurrent]_vars

\* Callers build episodes with the constructor and save what they built.
NextEntity ==
    \/ \E e \in {nil, "e1"}, v \in {Fill(1), Long(1)},
          scope \in {"user", "global"} :
          Construct("u1", e, "first", v, 1500, scope)
    \/ ret.op = "NewEpisodicMemory" /\ Save(CtxLive, ret.mems[1])

SpecEntity == Init /\ [][NextEntity]_vars

\* Decay cycles over a store that callers fill: episodes as the constructor
\* returns them and as Handed alters them, last accessed one or two
\* microseconds before Epoch; the engine is started and its cycles run, at
\* one clock reading or after time has passed, and their writes succeed or
\* fail.
NextCycle ==
    \/ \E id \in Ids :
          \E mem \in Handed(NewEpisodicMemory(id, "u1", nil, "first", Fill(1),
                                              2000, "user")) :
             Save(CtxLive, mem)
    \/ Start
    \/ CycleBegin
    \/ \E id \in Ids, written \in BOOLEAN : CycleStep(id, written)
    \/ CycleEnd
    \/ Tick

SpecCycle == Init /\ [][NextCycle]_vars

\* The engine's lifecycle: Start and Stop calls in any order, Stop under a
\* live context and under one whose deadline passes, while callers save
\* episodes and the cycles run.
NextEngine ==
    \/ \E id \in Ids :
          Save(CtxLive, NewEpisodicMemory(id, "u1", nil, "first", Fill(1),
                                          2000, "user"))
    \/ Start
    \/ StopCall
    \/ \E ctx \in {CtxLive, CtxDone} : StopReturn(ctx)
    \/ TaskExit
    \/ CycleBegin
    \/ \E id \in Ids, written \in BOOLEAN : CycleStep(id, written)
    \/ CycleEnd

SpecEngine == Init /\ [][NextEngine]_vars

\* The migration applied to a database in use: between Saves and reads, as
\* the integration test applies it at the start of every run.
NextMigrate ==
    \/ \E id \in Ids, c \in {"first", "second"}, t \in {1000, 2000} :
          Save(CtxLive, NewEpisodicMemory(id, "u1", nil, c, Fill(1), t, "user"))
    \/ \E id \in Ids : FindByID(CtxLive, id, PartitionContext("u1", nil))
    \/ \E l \in Limits : FindRecent(CtxLive, l, PartitionContext("u1", nil))
    \/ ApplyMigration

SpecMigrate == Init /\ [][NextMigrate]_vars

\* LoadConfig calls in working directories with any .env and config.yaml,
\* between callers' Setenv and Unsetenv calls.
NextConfig ==
    \/ \E dotenv \in DotEnvFiles, yaml \in YamlFiles : LoadConfig(dotenv, yaml)
    \/ \E name \in EnvNames : Setenv(name, SetenvValue)
    \/ \E name \in EnvNames : Unsetenv(name)

SpecConfig == Init /\ [][NextConfig]_vars

(***************************************************************************)
(* Properties.                                                             *)
(***************************************************************************)
IsFind == ret.op \in {"FindByID", "FindRecent", "FindByVector"}

IsFindList == ret.op \in {"FindRecent", "FindByVector"}

\* The episodes the last call returned.
Returned == {ret.mems[i] : i \in 1..Len(ret.mems)}

ReturnedIds == {ret.mems[i].ID : i \in 1..Len(ret.mems)}

AllPartitions == Partitions(Users, EntityIDs)

\* The partition predicate as the specification states it: same owner, and
\* the partition names no sub-scope, or the record has none, or they agree.
MatchesPartition(mem, pCtx) ==
    /\ mem.UserID = pCtx.UserID
    /\ \/ pCtx.EntityID = nil
       \/ mem.EntityID = nil
       \/ mem.EntityID = pCtx.EntityID

\* The ids of the saved episodes that match a partition.
SavedMatching(pCtx) == {i \in DOMAIN saved : MatchesPartition(saved[i], pCtx)}

\* C1: a Find under partition P1 never returns an episode that was saved with
\* the owner id of a partition P2 whose owner differs from P1's.
C1_OwnerIsolation ==
    IsFind =>
        \A p2 \in AllPartitions :
            p2.UserID # ret.pCtx.UserID =>
                \A m \in Returned :
                    m.ID \in DOMAIN saved /\ saved[m.ID].UserID # p2.UserID

\* A Find returned an episode while the table also holds another owner's.
C1_Witness ==
    /\ IsFindList
    /\ Returned # {}
    /\ \E i \in DOMAIN saved : saved[i].UserID # ret.pCtx.UserID

\* C2: the Find methods treat a saved record as visible to a partition exactly
\* when it matches the partition predicate: FindByID of a saved id succeeds iff
\* the record matches, and a list query whose limit covers the table returns
\* exactly the matching records.  (Under Spec every embedding has the query's
\* direction, so the index scan examines every row.)
C2_PartitionPredicate ==
    /\ (ret.op = "FindByID" /\ ret.id \in DOMAIN saved) =>
           ((ret.err = nil) <=> MatchesPartition(saved[ret.id], ret.pCtx))
    /\ (IsFindList /\ ret.limit >= Cardinality(DOMAIN saved)) =>
           ReturnedIds = SavedMatching(ret.pCtx)

\* C3: a Find whose partition names sub-scope S never returns a record of the
\* same owner whose sub-scope is present and different from S.
C3_SubScopeIsolation ==
    (IsFind /\ ret.pCtx.EntityID # nil) =>
        \A m \in Returned :
            /\ m.ID \in DOMAIN saved
            /\ ~ /\ saved[m.ID].UserID = ret.pCtx.UserID
                 /\ saved[m.ID].EntityID # nil
                 /\ saved[m.ID].EntityID # ret.pCtx.EntityID

\* A sub-scoped Find returned an episode while the same owner has a record in
\* another sub-scope.
C3_Witness ==
    /\ IsFind
    /\ ret.pCtx.EntityID # nil
    /\ Returned # {}
    /\ \E i \in DOMAIN saved :
          /\ saved[i].UserID = ret.pCtx.UserID
          /\ saved[i].EntityID \notin {nil, ret.pCtx.EntityID}

\* C4: FindByID with the id of an existing episode and a partition of another
\* owner fails with the no-rows error and returns no record.
C4_WrongOwnerNotFound ==
    (/\ ret.op = "FindByID"
     /\ ret.id \in DOMAIN saved
     /\ saved[ret.id].UserID # ret.pCtx.UserID) =>
        (ret.err = ErrNoRows /\ ret.mems = <<>>)

\* FindByID was called for another owner's existing episode.
C4_Witness ==
    /\ ret.op = "FindByID"
    /\ ret.id \in DOMAIN saved
    /\ saved[ret.id].UserID # ret.pCtx.UserID
    /\ ret.err # nil

\* C5: for every partition P and every stored record that does not match P,
\* FindByID of its id under P has the outcomes it would have if the record
\* were not in the table, and that is what the last such call returned.
C5_Indistinguishable ==
    /\ \A p \in AllPartitions, r \in table :
          ~MatchesPartition(saved[r.id], p) =>
              FindByIDResults(table, r.id, p) =
                  FindByIDResults(table \ {r}, r.id, p)
    /\ (/\ ret.op = "FindByID"
        /\ ret.id \in DOMAIN saved
        /\ ~MatchesPartition(saved[ret.id], ret.pCtx)) =>
           Outcome(ret.err, ret.mems) \in
               FindByIDResults({r \in table : r.id # ret.id}, ret.id, ret.pCtx)

\* FindByID was called for an id that exists outside the partition, while
\* another id is absent from the table.
C5_Witness ==
    /\ ret.op = "FindByID"
    /\ ret.id \in DOMAIN saved
    /\ ~MatchesPartition(saved[ret.id], ret.pCtx)
    /\ \E i \in Ids : i \notin DOMAIN saved
    /\ ret.err = ErrNoRows

\* A time cut to the whole microseconds a TIMESTAMPTZ column keeps.
WholeMicros(t) == t - (t % 1000)

\* The last call was FindByID of a saved episode under the partition the
\* episode was written under.
IsRoundTrip ==
    /\ ret.op = "FindByID"
    /\ ret.id \in DOMAIN saved
    /\ ret.pCtx = PartitionContext(saved[ret.id].UserID, saved[ret.id].EntityID)

\* C6 as stated: Save followed by FindByID with the same id and partition
\* returns an episode equal to the saved one in every field listed, created_at
\* and last_accessed included.
C6_RoundTripExact ==
    IsRoundTrip => (ret.err = nil /\ ret.mems = <<saved[ret.id]>>)

\* C6: Save followed by FindByID with the same id and partition returns one
\* episode equal to the saved one in id, owner id, sub-scope id, content,
\* embedding, share scope and accessibility score, and whose created_at and
\* last_accessed are the saved ones cut to whole microseconds (so equal to
\* them when they have no sub-microsecond part).
C6_RoundTrip ==
    IsRoundTrip =>
        /\ ret.err = nil
        /\ ret.mems =
               <<[saved[ret.id] EXCEPT
                     !.Timestamp = WholeMicros(@),
                     !.LastAccessed = WholeMicros(@)]>>
        /\ (saved[ret.id].Timestamp % 1000 = 0 /\
            saved[ret.id].LastAccessed % 1000 = 0) =>
               ret.mems = <<saved[ret.id]>>

\* A sub-scoped episode saved at a time with a sub-microsecond part was read
\* back under its own partition.
C6_Witness ==
    /\ IsRoundTrip
    /\ saved[ret.id].EntityID # nil
    /\ saved[ret.id].Timestamp % 1000 # 0
    /\ Len(ret.mems) = 1

\* created_at of a saved episode at the precision the table keeps.
CreatedAt(i) == WholeMicros(saved[i].Timestamp)

\* C7: FindRecent(limit, P) returns exactly min(limit, number of records that
\* match P) records, no record left out is newer than a returned one, and the
\* list is in descending created_at order.
C7_FindRecentTopN ==
    ret.op = "FindRecent" =>
        /\ ret.err = nil
        /\ Len(ret.mems) = Min(ret.limit, Cardinality(SavedMatching(ret.pCtx)))
        /\ ReturnedIds \subseteq SavedMatching(ret.pCtx)
        /\ \A i \in SavedMatching(ret.pCtx) \ ReturnedIds, j \in ReturnedIds :
              CreatedAt(i) <= CreatedAt(j)
        /\ \A i, j \in 1..Len(ret.mems) :
              i < j => ret.mems[i].Timestamp >= ret.mems[j].Timestamp

\* The same statement over the rows the WHERE clause keeps, which is what
\* FindRecent does: it fails for C7 only where the filter departs from the
\* partition predicate.
FindRecentTopNOfFiltered ==
    ret.op = "FindRecent" =>
        LET kept == {r.id : r \in Visible(table, ret.pCtx)}
        IN  /\ ret.err = nil
            /\ Len(ret.mems) = Min(ret.limit, Cardinality(kept))
            /\ ReturnedIds \subseteq kept
            /\ \A i \in kept \ ReturnedIds, j \in ReturnedIds :
                  CreatedAt(i) <= CreatedAt(j)
            /\ \A i, j \in 1..Len(ret.mems) :
                  i < j => ret.mems[i].Timestamp >= ret.mems[j].Timestamp

\* C8: among the records FindRecent returns, those saved with the same
\* created_at are in ascending id order, and when the limit cuts through such
\* a tie the records kept are the ones with the smaller ids.
C8_TiesByAscendingId ==
    ret.op = "FindRecent" =>
        /\ \A i, j \in 1..Len(ret.mems) :
              (/\ i < j
               /\ saved[ret.mems[i].ID].Timestamp =
                      saved[ret.mems[j].ID].Timestamp) =>
                  ret.mems[i].ID < ret.mems[j].ID
        /\ \A r \in Visible(table, ret.pCtx), j \in ReturnedIds :
              (/\ r.id \notin ReturnedIds
               /\ saved[r.id].Timestamp = saved[j].Timestamp) =>
                  j < r.id

\* The returned list is at most limit long, holds only records that match the
\* partition, and is in non-decreasing cosine distance from the query.
NearestFirst ==
    /\ ret.err = nil
    /\ Len(ret.mems) <= ret.limit
    /\ ReturnedIds \subseteq SavedMatching(ret.pCtx)
    /\ \A i, j \in 1..Len(ret.mems) :
          i < j => DistLeq(ret.vector, ret.mems[i].Embedding,
                           ret.mems[j].Embedding)

\* C9 as stated: nearest first, and no matching record left out of the result
\* is strictly closer to the query than a returned one.
C9_FindByVectorExact ==
    ret.op = "FindByVector" =>
        /\ NearestFirst
        /\ \A i \in SavedMatching(ret.pCtx) \ ReturnedIds, m \in Returned :
              ~DistLt(ret.vector, saved[i].Embedding, m.Embedding)

\* C9: FindByVector(q, limit, P) returns at most limit records, all matching
\* P, in non-decreasing cosine distance from q; every record it returns is
\* stored with the embedding it was saved with.
C9_FindByVector ==
    ret.op = "FindByVector" =>
        /\ NearestFirst
        /\ \A m \in Returned : m.Embedding = saved[m.ID].Embedding

\* FindByVector returned two records at different distances from the query.
C9_Witness ==
    /\ ret.op = "FindByVector"
    /\ Len(ret.mems) = 2
    /\ DistLt(ret.vector, ret.mems[1].Embedding, ret.mems[2].Embedding)

\* C10: when exactly one record matching P has its embedding equal to the
\* query vector, FindByVector(q, 1, P) returns exactly that record.
C10_ExactMatchFirst ==
    (/\ ret.op = "FindByVector"
     /\ ret.limit = 1) =>
        \A i \in SavedMatching(ret.pCtx) :
            (/\ saved[i].Embedding = ret.vector
             /\ \A j \in SavedMatching(ret.pCtx) \ {i} :
                   saved[j].Embedding # ret.vector) =>
                (Len(ret.mems) = 1 /\ ret.mems[1].ID = i)

\* C11: a Save whose embedding length differs from the configured embedding
\* dimension fails with the dimension error and leaves the table as it was.
C11_SaveRejectsMismatch ==
    [][(ret'.op = "Save" /\ Len(ret'.mem.Embedding) # cfg.EmbeddingDim) =>
           (ErrorsIs(ret'.err, ErrDimension) /\ table' = table)]_vars

\* The same statement for the dimension of the embedding column, which is the
\* one the INSERT is held to.
SaveRejectsColumnMismatch ==
    [][(ret'.op = "Save" /\ Len(ret'.mem.Embedding) # VectorDim) =>
           (ErrorsIs(ret'.err, ErrDimension) /\ table' = table)]_vars

\* C12: a Save whose id is already stored returns an error (the unique
\* violation, when the row is otherwise acceptable) and leaves the table as it
\* was; no two stored rows ever have the same id.
C12_DuplicateRejected ==
    /\ [](\A r1, r2 \in table : r1.id = r2.id => r1 = r2)
    /\ [][(ret'.op = "Save" /\ \E r \in table : r.id = ret'.id) =>
             /\ ret'.err # nil
             /\ Len(ret'.mem.Embedding) = VectorDim =>
                   ErrorsIs(ret'.err, ErrUniqueViolation)
             /\ table' = table
             /\ saved' = saved]_vars

\* A Save of a different episode under a stored id was refused.
C12_Witness ==
    /\ ret.op = "Save"
    /\ ErrorsIs(ret.err, ErrUniqueViolation)
    /\ ret.id \in DOMAIN saved
    /\ saved[ret.id] # ret.mem
    /\ ToRow(saved[ret.id]) \in table

\* C13: FindByVector with a query vector whose length differs from the
\* configured embedding dimension returns an error, never a result with a nil
\* error.
C13_QueryDimensionRejected ==
    (ret.op = "FindByVector" /\ Len(ret.vector) # cfg.EmbeddingDim) =>
        ret.err # nil

\* What FindByVector does with a query vector that does not fit the column:
\* it returns no episode and a nil error, whatever the table holds.
QueryColumnMismatchIsEmpty ==
    (ret.op = "FindByVector" /\ Len(ret.vector) # VectorDim) =>
        (ret.err = nil /\ ret.mems = <<>>)

\* The last call was made under a context whose deadline passed during it.
IsCallUnderDone ==
    /\ ret.op \in {"Save", "FindByID", "FindRecent", "FindByVector"}
    /\ ret.ctx = CtxDone

\* C14: a Save, FindByID, FindRecent or FindByVector call whose context
\* expires during the call returns the deadline error, never a nil error.
C14_TimeoutSurfaced ==
    IsCallUnderDone => ErrorsIs(ret.err, ErrDeadlineExceeded)

\* Save and FindByID do surface the deadline; so do the list queries when it
\* passes before Query returns.
TimeoutSurfacedOutsideLoop ==
    (IsCallUnderDone /\ (ret.op \in {"Save", "FindByID"} \/ ret.err # nil)) =>
        ErrorsIs(ret.err, ErrDeadlineExceeded)

\* C18: a FindByID, FindRecent or FindByVector call that returns episodes
\* with a nil error sets the stored last_accessed of each of them to the time
\* of the read.
C18_ReadTouchesLastAccessed ==
    [][(/\ clock' = clock
        /\ ret'.op \in {"FindByID", "FindRecent", "FindByVector"}
        /\ ret'.err = nil
        /\ ret'.mems # <<>>) =>
           \A i \in 1..Len(ret'.mems) :
               \E r \in table' :
                   /\ r.id = ret'.mems[i].ID
                   /\ r.last_accessed = ToTimestamptz(clock)]_vars

\* What the reads do instead: every stored row keeps the last_accessed its
\* Save wrote.
LastAccessedAsSaved ==
    \A r \in table : r.last_accessed = ToTimestamptz(saved[r.id].LastAccessed)

C16_ScoreNonNegative == \A r \in table : r.accessibility_score >= 0

\* C17: every stored episode has last_accessed >= created_at.
C17_LastAccessedNotBeforeCreated ==
    \A r \in table : r.last_accessed >= r.timestamp

\* What holds of both: the table has what Save was handed, so the two
\* properties hold of episodes saved as NewEpisodicMemory built them.
StoredAsHanded ==
    \A r \in table :
        /\ r.accessibility_score = saved[r.id].AccessibilityScore
        /\ r.last_accessed = ToTimestamptz(saved[r.id].LastAccessed)
        /\ r.timestamp = ToTimestamptz(saved[r.id].Timestamp)

C20_NewEpisodicMemoryDefaults ==
    ret.op = "NewEpisodicMemory" =>
        /\ Len(ret.mems) = 1
        /\ ret.mems[1].AccessibilityScore = 1000
        /\ ret.mems[1].LastAccessed = ret.args.timestamp
        /\ ret.mems[1].Timestamp = ret.args.timestamp
        /\ ret.mems[1].ID # UuidNil
        /\ ret.mems[1].ID \notin DOMAIN saved
        /\ ret.mems[1].UserID = ret.args.userID
        /\ ret.mems[1].EntityID = ret.args.entityID
        /\ ret.mems[1].Content = ret.args.content
        /\ ret.mems[1].Embedding = ret.args.embedding
        /\ ret.mems[1].ShareScope = ret.args.shareScope

\* An episode with a sub-scope was built after another one had been saved.
C20_Witness ==
    /\ ret.op = "NewEpisodicMemory"
    /\ ret.args.entityID # nil
    /\ DOMAIN saved # {}

\* The score the table holds for a stored id.
ScoreOf(id) == (CHOOSE r \in table : r.id = id).accessibility_score

\* C21: for every episode a decay cycle has written, the accessibility
\* score after the cycle is less than or equal to the score before it.
C21_DecayMonotone ==
    \A id \in decay.done : ScoreOf(id) <= decay.before[id]

\* A cycle does not raise a score that was not negative.
DecayMonotoneFromNonNegative ==
    \A id \in decay.done :
        decay.before[id] >= 0 => ScoreOf(id) <= decay.before[id]

\* C22: when a cycle has run with zero elapsed time after the cycle before
\* it, every episode both cycles wrote has the score the first one gave it.
C22_DecayIdempotent ==
    (decay.cycles >= 2 /\ decay.prevAt = decay.at) =>
        \A id \in decay.done \cap decay.prevDone :
            ScoreOf(id) = decay.before[id]

\* C23: Start in Idle moves the engine to Running with exactly one periodic
\* task and a new stop handle; Start while Running changes neither the state
\* nor the tasks and returns the existing handle; at every moment there is at
\* most one periodic task, and there is one exactly when the engine is
\* Running.
C23_SinglePeriodicTask ==
    /\ [](decay.tasks <= 1 /\ (decay.state = "Running" <=> decay.tasks = 1))
    /\ [][decay'.event = "Start" =>
            IF decay.state = "Idle"
            THEN /\ decay'.state = "Running"
                 /\ decay'.tasks = 1
                 /\ decay'.handle # decay.handle
                 /\ ret'.handle = decay'.handle
            ELSE /\ decay'.state = "Running"
                 /\ decay'.tasks = decay.tasks
                 /\ decay'.handle = decay.handle
                 /\ ret'.op = "Start" => ret'.handle = decay.handle]_vars

\* Start was called while the engine was Running, after the engine had been
\* stopped and started again and had run cycles.
C23_Witness ==
    /\ ret.op = "Start"
    /\ ret.was = "Running"
    /\ decay.handle = 0
    /\ decay.tasks = 1
    /\ decay.cycles > 0

\* C24 as stated: whenever Stop has returned, the cycle that was in flight
\* has completed and the engine is Idle.
C24_StopWaits ==
    ret.op = "Stop" => (decay.cycle = "none" /\ decay.state = "Idle")

\* C24: Stop returns without error only after the cycle in flight has
\* completed, and the engine is then Idle with no periodic task; the only
\* error it returns is the expiry of the caller's deadline; and while the
\* engine is Idle no stored row is rewritten.
C24_StopWaitsOrTimesOut ==
    /\ []((ret.op = "Stop" /\ ret.err = nil) =>
            (decay.cycle = "none" /\ decay.state = "Idle" /\ decay.tasks = 0))
    /\ []((ret.op = "Stop" /\ ret.err # nil) =>
            (ret.err = ErrDeadlineExceeded /\ ret.ctx = CtxDone))
    /\ [][decay.state = "Idle" => \A r \in table : r \in table']_vars

\* Stop was called while a cycle was in flight, waited for it and returned
\* nil after the cycle had written a score.
C24_Witness ==
    /\ ret.op = "Stop"
    /\ ret.err = nil
    /\ ret.inflight
    /\ decay.done # {}

\* C25: when a cycle has completed, every episode it swept has either been
\* written with its new score or, its write having failed, kept the score
\* it had before the cycle.
C25_PartialFailureTolerant ==
    (decay.cycle = "none" /\ decay.cycles > 0) =>
        \A id \in DOMAIN decay.before :
            LET row == CHOOSE r \in table : r.id = id
                was == [row EXCEPT !.accessibility_score = decay.before[id]]
            IN  \/ id \in decay.done /\
                   row.accessibility_score = RowDecayed(was, decay.at)
                \/ id \in decay.failed /\
                   row.accessibility_score = decay.before[id]

\* A cycle completed in which one write failed and another one lowered a
\* score.
C25_Witness ==
    /\ decay.cycle = "none"
    /\ decay.failed # {}
    /\ \E id \in decay.done : ScoreOf(id) < decay.before[id]

\* The Config field a key is decoded into.
Field(config, key) ==
    CASE key = "embedding_dim" -> config.EmbeddingDim
      [] key = "decay_base_rate" -> config.DecayBaseRate
      [] key = "decay_valence_weight" -> config.DecayValenceWeight

\* The value the precedence rule gives a key that some source defines.
Preferred(environment, dotenv, yaml, key) ==
    IF EnvName(key) \in DOMAIN environment
    THEN Atoi(environment[EnvName(key)])
    ELSE IF EnvName(key) \in DOMAIN dotenv
         THEN Atoi(dotenv[EnvName(key)])
         ELSE yaml[key]

\* C26: for every key that the environment, the .env file or config.yaml
\* defines, LoadConfig returns the environment variable's value if it is set,
\* otherwise the .env file's, otherwise config.yaml's.
C26_ConfigPrecedence ==
    ret.op = "LoadConfig" =>
        \A key \in ConfigKeys :
            (\/ EnvName(key) \in DOMAIN ret.environ
             \/ EnvName(key) \in DOMAIN ret.dotenv
             \/ key \in DOMAIN ret.yaml) =>
                Field(cfg, key) =
                    Preferred(ret.environ, ret.dotenv, ret.yaml, key)

\* The precedence holds for the keys config.yaml defines.
ConfigPrecedenceOfFileKeys ==
    ret.op = "LoadConfig" =>
        \A key \in DOMAIN ret.yaml :
            Field(cfg, key) = Preferred(ret.environ, ret.dotenv, ret.yaml, key)

\* C30: when LoadConfig has returned, the process environment is as it was
\* before the call, and no key that the call's .env file leaves undefined
\* has the value of a .env file.
C30_EnvironmentUnchanged ==
    ret.op = "LoadConfig" =>
        /\ environ = ret.environ
        /\ \A key \in ConfigKeys :
              EnvName(key) \notin DOMAIN ret.dotenv =>
                  Field(cfg, key) # Atoi(DotEnvValue)

\* LoadConfig leaves every variable the environment held as it was.
EnvironmentKept ==
    ret.op = "LoadConfig" =>
        \A name \in DOMAIN ret.environ :
            name \in DOMAIN environ /\ environ[name] = ret.environ[name]

C28_ConfiguredDimensionAccepted ==
    [][(/\ ret'.op = "Save"
        /\ ret'.id \notin DOMAIN saved
        /\ Len(ret'.mem.Embedding) = cfg.EmbeddingDim) =>
            (ret'.err = nil /\ ret'.id \in DOMAIN saved')]_vars

\* A Save with an unstored id is accepted exactly when the embedding has the
\* column's dimension, whatever the configuration says.
ColumnDimensionAccepted ==
    [][(ret'.op = "Save" /\ ret'.id \notin DOMAIN saved) =>
            (ret'.err = nil <=> Len(ret'.mem.Embedding) = VectorDim)]_vars

\* C29: a step in which migration 0001 is applied removes no stored
\* episode: every row of the table before it is a row of the table after it.
C29_MigrationKeepsEpisodes ==
    [][ret'.op = "ApplyMigration" => \A r \in table : r \in table']_vars

\* After the migration the table is empty.
MigrationEmptiesTable == ret.op = "ApplyMigration" => table = {}

====
